---- MODULE Spec2Model ----
(***************************************************************************)
(* Medicare STAR Rating Simulator (src/app.py): the KPI catalog, the       *)
(* baseline initializer, the scoring and recommendation functions, and the *)
(* Streamlit session that reruns the script on every interaction.          *)
(*                                                                         *)
(* Numbers.  Every KPI value is a Python float with at most one decimal;   *)
(* it is written here in tenths (1.0 is 10, 2.5 is 25, 5.0 is 50).  A      *)
(* score is an exact fraction [num, den] of tenths (3.2 is 32/1); the      *)
(* arithmetic of calculate_star_score is carried out exactly, so the last  *)
(* bit of a double's rounding is not modelled.                             *)
(*                                                                         *)
(* Dicts.  A Python dict is a sequence of entries [k, v] with distinct     *)
(* keys, in insertion order.                                               *)
(***************************************************************************)
EXTENDS Integers, Sequences, FiniteSets, TLC

VARIABLES
    session_state,  \* st.session_state: a function from key to value
    widgets,        \* the browser's slider states: label -> [default, value]
    pc,             \* "start" | "idle" | "rerun": where the session stands
    last,           \* the interaction the last finished pass served
    edits,          \* slider moves made so far (bounded by MaxEdits)
    shown_score,    \* the Projected STAR Rating on the page
    chart,          \* the rows of the DataFrame behind both charts
    shown_recs,     \* the recommendation lines on the page
    arg,            \* harness: the dict handed to a pure function
    called,         \* harness: "none" | "score" | "recs"
    result,         \* harness: what the call returned
    pokes           \* harness: entries overwritten or added so far

vars == <<session_state, widgets, pc, last, edits, shown_score, chart,
          shown_recs, arg, called, result, pokes>>

sessionVars == <<session_state, widgets, pc, last, edits, shown_score, chart,
                 shown_recs>>

harnessVars == <<arg, called, result, pokes>>

\* Slider moves explored in one session.
MaxEdits == 2

\* Entries written into a harness input after it is first built.
MaxPokes == 1

(***************************************************************************)
(* Python dict and string primitives                                       *)
(***************************************************************************)

EmptyDict == << >>

Keys(d) == {d[i].k : i \in DOMAIN d}

HasKey(d, key) == \E i \in DOMAIN d : d[i].k = key

\* d[key]
Get(d, key) == d[CHOOSE i \in DOMAIN d : d[i].k = key].v

\* d[key] = v: an existing key keeps its place, a new key goes last.
Put(d, key, v) ==
    IF HasKey(d, key)
    THEN [i \in DOMAIN d |-> IF d[i].k = key THEN [k |-> key, v |-> v] ELSE d[i]]
    ELSE Append(d, [k |-> key, v |-> v])

\* sum(d.values())
RECURSIVE SumValues(_)
SumValues(d) == IF d = << >> THEN 0 ELSE Head(d).v + SumValues(Tail(d))

\* sub in s (case-sensitive substring test)
Contains(s, sub) ==
    \E i \in 1..(Len(s) - Len(sub) + 1) : SubSeq(s, i, i + Len(sub) - 1) = sub

\* str(x) of a float with one decimal, x in tenths: 25 is "2.5", 20 is "2.0".
FloatStr(x) == ToString(x \div 10) \o "." \o ToString(x % 10)

(***************************************************************************)
(* 1. KPI definitions                                                      *)
(***************************************************************************)

E(key, value) == [k |-> key, v |-> value]

categorized_kpis == <<
    E("Part D Measures", <<
        E("Medication Adherence", <<
            E("Medication Adherence - Diabetes", "Percentage of members with diabetes who adhere to their medication regimen."),
            E("Medication Adherence - Hypertension", "Percentage of members with high blood pressure who take their meds as prescribed."),
            E("Medication Adherence - Cholesterol", "Statin adherence among members with cardiovascular risk.") >>),
        E("High-Risk Medication Use", <<
            E("Use of High-Risk Medications in the Elderly", "Minimizing risky medications prescribed to older adults.") >>),
        E("MTM Program Completion Rate", <<
            E("MTM Program Completion Rate for CMR", "Percent of members who completed a Comprehensive Medication Review.") >>) >>),
    E("Member Experience (CAHPS)", <<
        E("Access and Service", <<
            E("Getting Needed Care", "Members' ease of getting appointments and services."),
            E("Getting Appointments and Care Quickly", "Timeliness of access to care.") >>),
        E("Customer Service", <<
            E("Customer Service Rating", "Satisfaction with plan's customer service interactions.") >>) >>),
    E("Member Complaints and Improvement", <<
        E("Complaints and Disenrollment", <<
            E("Members Choosing to Leave the Plan", "Rate at which members voluntarily leave the plan."),
            E("Complaints About the Health Plan", "Number of complaints filed about the plan.") >>),
        E("Appeals", <<
            E("Timeliness of Appeals Decisions", "Time taken to resolve member appeals."),
            E("Plan Makes Timely Decisions About Appeals", "Adherence to decision timelines.") >>) >>) >>

\* The keys of a dict, in order.
KeySeq(d) == [i \in DOMAIN d |-> d[i].k]

RECURSIVE Flatten(_)
Flatten(seqs) == IF seqs = << >> THEN << >> ELSE Head(seqs) \o Flatten(Tail(seqs))

\* The labels in the order the three nested loops over categorized_kpis
\* visit them (domains, then subgroups, then items).
LoopLabels ==
    Flatten([g \in DOMAIN categorized_kpis |->
        Flatten([s \in DOMAIN categorized_kpis[g].v |->
            KeySeq(categorized_kpis[g].v[s].v)])])

CatalogNames == {LoopLabels[i] : i \in DOMAIN LoopLabels}

(***************************************************************************)
(* 2. Baseline values                                                      *)
(***************************************************************************)

\* Variant of baseline_value whose second rule tests "Rat", which "Rate"
\* matches too.
BaselineValueRateKeyword(kpi) ==
    IF Contains(kpi, "Complaints") \/ Contains(kpi, "Problems") THEN 10
    ELSE IF Contains(kpi, "Rat") \/ Contains(kpi, "Adherence") THEN 30
    ELSE IF Contains(kpi, "Accuracy") \/ Contains(kpi, "Timeliness") THEN 40
    ELSE 20

\* The if / elif chain of baseline_kpis for one kpi.
baseline_value(kpi) ==
    IF Contains(kpi, "Complaints") \/ Contains(kpi, "Problems") THEN 10
    ELSE IF Contains(kpi, "Rating") \/ Contains(kpi, "Adherence") THEN 30
    ELSE IF Contains(kpi, "Accuracy") \/ Contains(kpi, "Timeliness") THEN 40
    ELSE 20

RECURSIVE BaselineFrom(_, _)
BaselineFrom(labels, flat) ==
    IF labels = << >> THEN flat
    ELSE BaselineFrom(Tail(labels),
                      Put(flat, Head(labels), baseline_value(Head(labels))))

baseline_kpis == BaselineFrom(LoopLabels, EmptyDict)

(***************************************************************************)
(* 3. Recommendations map                                                  *)
(***************************************************************************)

kpi_recommendations == <<
    E("Medication Adherence - Diabetes", "Invest in pharmacy outreach and digital refill reminders to improve medication adherence."),
    E("Customer Service Rating", "Enhance call center training and reduce wait times to improve member satisfaction."),
    E("Timeliness of Appeals Decisions", "Automate case handling workflows to accelerate resolution and ensure compliance."),
    E("Plan Makes Timely Decisions About Appeals", "Implement SLA dashboards and audit queues to reduce delays in decisions."),
    E("Getting Appointments and Care Quickly", "Expand provider network or offer telehealth to improve timely access.") >>

(***************************************************************************)
(* 4. STAR score calculation                                               *)
(***************************************************************************)

\* 3.2, in tenths.
BASE_SCORE == 32

Returned(num, den) == [ok |-> TRUE, num |-> num, den |-> den]

Raised(exc) == [ok |-> FALSE, exc |-> exc]

Max(a, b) == IF a >= b THEN a ELSE b

Min(a, b) == IF a <= b THEN a ELSE b

\* Variant of calculate_star_score that scales the ratio by 5.0 instead of
\* 5 - BASE_SCORE.
CalculateStarScoreFullSpan(kpis) ==
    LET total == SumValues(kpis)
        n == Len(kpis)
        den == n * 50 - n * 10
    IN  IF den = 0 THEN Raised("ZeroDivisionError")
        ELSE Returned(BASE_SCORE * den + Max(0, Min(den, total - n * 10)) * 50, den)

\* Variant of calculate_star_score without the clamp of the ratio.
CalculateStarScoreNoClamp(kpis) ==
    LET total == SumValues(kpis)
        n == Len(kpis)
        den == n * 50 - n * 10
    IN  IF den = 0 THEN Raised("ZeroDivisionError")
        ELSE Returned(BASE_SCORE * den + (total - n * 10) * (50 - BASE_SCORE), den)

\* ratio is the fraction rnum / den, clamped to [0, 1] by clamping rnum to
\* [0, den]; the result BASE_SCORE + ratio * (5 - BASE_SCORE) is the fraction
\* (BASE_SCORE * den + rnum * (50 - BASE_SCORE)) / den.  Python's float
\* division raises ZeroDivisionError on a zero divisor.
calculate_star_score(kpis) ==
    LET total == SumValues(kpis)
        n == Len(kpis)
        min_sum == n * 10
        max_sum == n * 50
        den == max_sum - min_sum
    IN  IF den = 0 THEN Raised("ZeroDivisionError")
        ELSE LET rnum == Max(0, Min(den, total - min_sum))
             IN  Returned(BASE_SCORE * den + rnum * (50 - BASE_SCORE), den)

(***************************************************************************)
(* 5. Top-5 recommendations                                                *)
(***************************************************************************)

\* The recommendations list holds at most this many lines.
TOP_N == 5

\* sorted(..., key=lambda kv: kv[1]) is stable: an entry goes after every
\* entry already placed whose value is not larger.
RECURSIVE InsertByValue(_, _)
InsertByValue(sorted, e) ==
    IF sorted = << >> \/ e.v < Head(sorted).v
    THEN <<e>> \o sorted
    ELSE <<Head(sorted)>> \o InsertByValue(Tail(sorted), e)

RECURSIVE SortedByValue(_)
SortedByValue(items) ==
    IF items = << >> THEN << >>
    ELSE InsertByValue(SortedByValue(SubSeq(items, 1, Len(items) - 1)),
                       items[Len(items)])

IsLow(e) == e.v < 30

\* Variant of low that filters with v <= 3.0.
LowAtMostThree(kpis) ==
    LET s == SortedByValue(SelectSeq(kpis, LAMBDA e : e.v <= 30))
    IN  SubSeq(s, 1, Min(TOP_N, Len(s)))

\* Variant of low that cuts to five without sorting.
LowUnsorted(kpis) ==
    LET s == SelectSeq(kpis, IsLow)
    IN  SubSeq(s, 1, Min(TOP_N, Len(s)))

\* low = sorted((k, v) for k, v in kpis.items() if v < 3.0, key=...)[:5]
low(kpis) ==
    LET s == SortedByValue(SelectSeq(kpis, IsLow))
    IN  SubSeq(s, 1, Min(TOP_N, Len(s)))

FALLBACK == "Focus operational improvements on this area."

\* Variant of advice that never consults kpi_recommendations.
AdviceAlwaysFallback(kpi) == FALLBACK

\* kpi_recommendations.get(kpi, "Focus operational improvements on this area.")
advice(kpi) ==
    IF HasKey(kpi_recommendations, kpi) THEN Get(kpi_recommendations, kpi)
    ELSE FALLBACK

\* The f-string of one line.  Its two non-ASCII characters are spelled in
\* ASCII: the chart emoji is ":chart:" and the en dash is "--".
rec_line(kpi, val) ==
    ":chart: \"" \o kpi \o "\" (score: " \o FloatStr(val) \o ") -- " \o advice(kpi)

generate_recommendations(kpis) ==
    LET l == low(kpis)
    IN  [i \in DOMAIN l |-> rec_line(l[i].k, l[i].v)]

(***************************************************************************)
(* The pure functions under a harness: an input dict is built, changed in  *)
(* at most MaxPokes entries, and handed to one of the two functions.       *)
(***************************************************************************)

\* 0.0 and 6.0 lie outside the slider's range; 2.5 is off its step.
InputValues == {0, 10, 20, 25, 30, 50, 60}

\* The first n of the labels, each at value u.
Uniform(labels, n, u) == [i \in 1..n |-> E(labels[i], u)]

InitialInputs ==
    {Uniform(LoopLabels, n, u) : n \in 0..Len(LoopLabels), u \in InputValues}

NoSession ==
    /\ session_state = << >>
    /\ widgets = << >>
    /\ pc = "start"
    /\ last = "none"
    /\ edits = 0
    /\ shown_score = << >>
    /\ chart = << >>
    /\ shown_recs = << >>

NoHarness ==
    /\ arg = EmptyDict
    /\ called = "none"
    /\ result = << >>
    /\ pokes = 0

InitFn ==
    /\ NoSession
    /\ arg \in InitialInputs
    /\ called = "none"
    /\ result = << >>
    /\ pokes = 0

\* kpis[key] = v on the input
Poke(key, v) ==
    /\ called = "none"
    /\ pokes < MaxPokes
    /\ Put(arg, key, v) # arg
    /\ arg' = Put(arg, key, v)
    /\ pokes' = pokes + 1
    /\ UNCHANGED <<called, result>>
    /\ UNCHANGED sessionVars

CallScore ==
    /\ called = "none"
    /\ called' = "score"
    /\ result' = calculate_star_score(arg)
    /\ UNCHANGED <<arg, pokes>>
    /\ UNCHANGED sessionVars

CallRecs ==
    /\ called = "none"
    /\ called' = "recs"
    /\ result' = generate_recommendations(arg)
    /\ UNCHANGED <<arg, pokes>>
    /\ UNCHANGED sessionVars

NextFn ==
    \/ \E key \in CatalogNames, v \in InputValues : Poke(key, v)
    \/ CallScore
    \/ CallRecs

SpecFn == InitFn /\ [][NextFn]_vars

(***************************************************************************)
(* Properties of the pure functions (checked under SpecFn)                 *)
(***************************************************************************)

\* One entry per catalog metric, every value in [1.0, 5.0].
ValidMetricValueSet(d) ==
    /\ Len(d) = Cardinality(CatalogNames)
    /\ Keys(d) = CatalogNames
    /\ \A i \in DOMAIN d : 10 <= d[i].v /\ d[i].v <= 50

AllAt(d, u) == \A i \in DOMAIN d : d[i].v = u

\* C1: for every valid MetricValueSet calculate_star_score returns a value
\* in the closed interval [3.2, 5.0].
C1_ScoreInRange ==
    (called = "score" /\ ValidMetricValueSet(arg)) =>
        /\ result.ok
        /\ result.den > 0
        /\ 32 * result.den <= result.num
        /\ result.num <= 50 * result.den

\* A valid set with unequal values was scored strictly inside the interval.
C1_Witness ==
    /\ called = "score"
    /\ ValidMetricValueSet(arg)
    /\ \E i, j \in DOMAIN arg : arg[i].v < arg[j].v
    /\ result.ok
    /\ 32 * result.den < result.num
    /\ result.num < 50 * result.den

\* C2: calculate_star_score of the empty MetricValueSet (n = 0) returns
\* BASE_SCORE (3.2) and does not propagate a division fault.
C2_EmptyGivesBaseScore ==
    (called = "score" /\ arg = EmptyDict) =>
        (result.ok /\ result.num = BASE_SCORE * result.den)

\* C3: for every non-empty set of n metrics the score equals
\* 3.2 + clamp((total - n) / (4n), 0, 1) * 1.8; it is 3.2 when all values
\* are 1.0, 5.0 when all are 5.0 and 4.1 when all are 3.0.
C3_ScoreFormula ==
    (called = "score" /\ Len(arg) > 0) =>
        LET n == Len(arg)
            excess == SumValues(arg) - 10 * n
            clamped == IF excess < 0 THEN 0
                       ELSE IF excess > 40 * n THEN 40 * n ELSE excess
        IN  /\ result.ok
            /\ result.den > 0
            /\ result.num * (40 * n) = result.den * (32 * 40 * n + 18 * clamped)
            /\ AllAt(arg, 10) => result.num = 32 * result.den
            /\ AllAt(arg, 50) => result.num = 50 * result.den
            /\ AllAt(arg, 30) => result.num = 41 * result.den

\* The full catalog at 3.0 everywhere was scored 4.1.
C3_Witness ==
    /\ called = "score"
    /\ Keys(arg) = CatalogNames
    /\ AllAt(arg, 30)
    /\ result.ok
    /\ result.num = 41 * result.den

LowIndexes(d) == {j \in DOMAIN d : d[j].v < 30}

\* C4: generate_recommendations returns at most 5 entries, each for a
\* distinct metric whose value in the input is strictly below 3.0.
C4_AtMostFiveLow ==
    called = "recs" =>
        /\ Len(result) <= 5
        /\ \A i \in DOMAIN result :
              \E j \in LowIndexes(arg) : result[i] = rec_line(arg[j].k, arg[j].v)
        /\ \A i1, i2 \in DOMAIN result : result[i1] = result[i2] => i1 = i2

\* More than five metrics are below 3.0 and one sits at exactly 3.0: five
\* lines came back.
C4_Witness ==
    /\ called = "recs"
    /\ Cardinality(LowIndexes(arg)) > 5
    /\ \E j \in DOMAIN arg : arg[j].v = 30
    /\ Len(result) = 5

\* Position of a below-3.0 entry among the below-3.0 entries ordered by
\* value, equal values by their place in the mapping.
Rank(d, j) ==
    1 + Cardinality({m \in LowIndexes(d) :
                        d[m].v < d[j].v \/ (d[m].v = d[j].v /\ m < j)})

\* C5: with k metrics below 3.0 the result has min(5, k) entries: the first
\* min(5, k) of the below-3.0 metrics in ascending value, ties in insertion
\* order; so values never decrease and no omitted metric is lower than a
\* returned one.
C5_WorstFirstStable ==
    called = "recs" =>
        /\ Len(result) = Min(5, Cardinality(LowIndexes(arg)))
        /\ \A j \in LowIndexes(arg) :
              Rank(arg, j) <= 5 =>
                  result[Rank(arg, j)] = rec_line(arg[j].k, arg[j].v)

\* More than five below 3.0, with a tie and with a later entry lower than
\* an earlier one: the sort and the cut both acted.
C5_Witness ==
    /\ called = "recs"
    /\ Len(result) = 5
    /\ Cardinality(LowIndexes(arg)) > 5
    /\ \E a, b \in LowIndexes(arg) : a < b /\ arg[b].v < arg[a].v
    /\ \E a, b \in LowIndexes(arg) : a # b /\ arg[a].v = arg[b].v /\ Rank(arg, b) <= 5

DiabetesLine ==
    ":chart: \"Medication Adherence - Diabetes\" (score: 2.0) -- Invest in pharmacy outreach and digital refill reminders to improve medication adherence."

\* C6: each line embeds the metric's name, its value and the advice: the
\* Advisory Table's text for that exact name when there is one, else the
\* generic fallback; a missing advisory drops no entry.  With "Medication
\* Adherence - Diabetes" at 2.0 the only metric below 3.0 there is exactly
\* one line, with its "Invest in pharmacy outreach..." text.
C6_AdviceOrFallback ==
    called = "recs" =>
        /\ Len(result) = Min(5, Cardinality(LowIndexes(arg)))
        /\ \A i \in DOMAIN result :
              \E j \in LowIndexes(arg) :
                  LET name == arg[j].k
                      entries == {e \in DOMAIN kpi_recommendations :
                                      kpi_recommendations[e].k = name}
                      text == IF entries = {}
                              THEN "Focus operational improvements on this area."
                              ELSE kpi_recommendations[CHOOSE e \in entries : TRUE].v
                  IN  result[i] = ":chart: \"" \o name \o "\" (score: "
                                      \o FloatStr(arg[j].v) \o ") -- " \o text
        /\ (\A j \in DOMAIN arg :
                arg[j].v < 30 <=>
                    (arg[j].k = "Medication Adherence - Diabetes" /\ arg[j].v = 20))
           => (LowIndexes(arg) # {} => result = <<DiabetesLine>>)

\* A metric at 2.5 without an advisory got the fallback text, next to a
\* metric that has its own advisory.
C6_Witness ==
    /\ called = "recs"
    /\ \E j \in LowIndexes(arg) :
          /\ arg[j].v = 25
          /\ ~HasKey(kpi_recommendations, arg[j].k)
          /\ \E i \in DOMAIN result :
                /\ Contains(result[i], arg[j].k)
                /\ Contains(result[i], "(score: 2.5)")
                /\ Contains(result[i], FALLBACK)
    /\ \E j \in LowIndexes(arg) :
          /\ HasKey(kpi_recommendations, arg[j].k)
          /\ \E i \in DOMAIN result :
                Contains(result[i], Get(kpi_recommendations, arg[j].k))

(***************************************************************************)
(* 6. The Streamlit app: one session.                                      *)
(*                                                                         *)
(* Streamlit runs the script from top to bottom on the first load and on   *)
(* every interaction.  A slider is identified by its arguments (label,     *)
(* range, step, key and the default `value`); a slider Streamlit already   *)
(* holds a state for returns that state, any other returns its default.    *)
(* States of widgets that a run did not render are dropped when the run    *)
(* ends, also when st.experimental_rerun() ended it.                       *)
(***************************************************************************)

NoWidgets == << >>

\* Variant of slider_choices with min_value=0.0 and max_value=10.0.
SliderChoicesZeroToTen == {x \in 0..100 : x % 10 = 0}

\* What the user can set a slider to: min_value=1.0, max_value=5.0, step=1.0.
slider_choices == {x \in 10..50 : (x - 10) % 10 = 0}

\* new_val = st.slider(label=label, ..., value=default, key=label)
slider(store, label, default) ==
    IF label \in DOMAIN store /\ store[label].default = default
    THEN store[label].value
    ELSE default

\* The body of the three nested for loops, label by label:
\* st.session_state.kpis[label] = st.slider(..., value=kpis[label], ...)
RECURSIVE slider_loop(_, _, _)
slider_loop(labels, kpis, store) ==
    IF labels = << >> THEN kpis
    ELSE LET label == Head(labels)
             new_val == slider(store, label, Get(kpis, label))
         IN  slider_loop(Tail(labels), Put(kpis, label, new_val), store)

\* The sliders a pass rendered: each with the default it was given and the
\* value it returned.
Rendered(before, after) ==
    [label \in Keys(before) |->
        [default |-> Get(before, label), value |-> Get(after, label)]]

\* if "kpis" not in st.session_state: st.session_state.kpis = baseline_kpis()
init_session(ss) ==
    IF "kpis" \in DOMAIN ss THEN ss
    ELSE [x \in DOMAIN ss \cup {"kpis"} |->
             IF x = "kpis" THEN baseline_kpis ELSE ss[x]]

\* Variant of reset_button that assigns the baseline only when the session
\* has no mapping yet.
ResetOnlyIfMissing(ss) == init_session(ss)

\* st.session_state.kpis = baseline_kpis() under the pressed reset button
reset_button(ss) ==
    [x \in DOMAIN ss \cup {"kpis"} |->
        IF x = "kpis" THEN baseline_kpis ELSE ss[x]]

\* pd.DataFrame.from_dict(kpis, orient="index", columns=["value"])
\*   .reset_index().rename(columns={"index": "KPI"})
DataFrame(kpis) == [i \in DOMAIN kpis |-> [KPI |-> kpis[i].k, value |-> kpis[i].v]]

\* One pass of the script with the reset button not pressed, given the
\* slider states Streamlit holds: the score is rendered from the mapping as
\* it stands, then the slider loop writes the mapping, then the charts and
\* the recommendations are rendered.
run_script(ss, store) ==
    LET ss1 == init_session(ss)
        score == calculate_star_score(ss1.kpis)
        passes ==
            {[session_state |-> [ss1 EXCEPT !.kpis = after],
              shown_score |-> score,
              rendered |-> Rendered(ss1.kpis, after),
              chart |-> DataFrame(after),
              shown_recs |-> generate_recommendations(after)] :
                after \in {slider_loop(LoopLabels, ss1.kpis, store)}}
    IN  CHOOSE out \in passes : TRUE

Init ==
    /\ NoSession
    /\ NoHarness

\* The page is opened: the first run of the script.
FirstRun ==
    /\ pc = "start"
    /\ \E out \in {run_script(session_state, NoWidgets)} :
           /\ session_state' = out.session_state
           /\ shown_score' = out.shown_score
           /\ widgets' = out.rendered
           /\ chart' = out.chart
           /\ shown_recs' = out.shown_recs
    /\ pc' = "idle"
    /\ last' = "load"
    /\ UNCHANGED edits
    /\ UNCHANGED harnessVars

\* The user moves one slider to v; the browser sends its slider states and
\* the script runs once.
SliderEdit(label, v) ==
    /\ pc = "idle"
    /\ edits < MaxEdits
    /\ label \in DOMAIN widgets
    /\ v # widgets[label].value
    /\ \E out \in {run_script(session_state, [widgets EXCEPT ![label].value = v])} :
           /\ session_state' = out.session_state
           /\ shown_score' = out.shown_score
           /\ widgets' = out.rendered
           /\ chart' = out.chart
           /\ shown_recs' = out.shown_recs
    /\ edits' = edits + 1
    /\ last' = "edit"
    /\ UNCHANGED pc
    /\ UNCHANGED harnessVars

\* The user presses "Reset to Baseline": the run assigns the baseline and
\* stops at st.experimental_rerun(), before the score and the sliders.  The
\* server drops the slider states (no slider was rendered); whether the
\* browser keeps the positions of the sliders still on the page depends on
\* the Streamlit release, so both are possible.
ResetClick ==
    /\ pc = "idle"
    /\ session_state' = reset_button(session_state)
    /\ widgets' \in {widgets, NoWidgets}
    /\ pc' = "rerun"
    /\ UNCHANGED <<last, edits, shown_score, chart, shown_recs>>
    /\ UNCHANGED harnessVars

\* The run st.experimental_rerun() asked for: it carries no slider states,
\* so every slider returns its default.  A slider the browser still holds
\* under the same identity keeps its position in the browser.
Rerun ==
    /\ pc = "rerun"
    /\ \E out \in {run_script(session_state, NoWidgets)} :
           /\ session_state' = out.session_state
           /\ shown_score' = out.shown_score
           /\ widgets' = [label \in DOMAIN out.rendered |->
                             IF /\ label \in DOMAIN widgets
                                /\ widgets[label].default = out.rendered[label].default
                             THEN widgets[label]
                             ELSE out.rendered[label]]
           /\ chart' = out.chart
           /\ shown_recs' = out.shown_recs
    /\ pc' = "idle"
    /\ last' = "reset"
    /\ UNCHANGED edits
    /\ UNCHANGED harnessVars

Next ==
    \/ FirstRun
    \/ \E label \in CatalogNames, v \in slider_choices : SliderEdit(label, v)
    \/ ResetClick
    \/ Rerun

Spec == Init /\ [][Next]_vars

(***************************************************************************)
(* Properties of the session (checked under Spec)                          *)
(***************************************************************************)

HasKpis == "kpis" \in DOMAIN session_state

\* The value the ordered keyword rules give each catalog name.
RuleValue ==
    [name \in CatalogNames |->
        LET has(w) == \E p \in 1..(Len(name) - Len(w) + 1) :
                          SubSeq(name, p, p + Len(w) - 1) = w
        IN  IF has("Complaints") \/ has("Problems") THEN 10
            ELSE IF has("Rating") \/ has("Adherence") THEN 30
            ELSE IF has("Accuracy") \/ has("Timeliness") THEN 40
            ELSE 20]

\* C7: baseline_kpis gives every catalog metric exactly one value, by the
\* first matching rule on its name: "Complaints" or "Problems" 1.0, else
\* "Rating" or "Adherence" 3.0, else "Accuracy" or "Timeliness" 4.0, else
\* 2.0.  Here for the mapping the reset button has just assigned.
C7_BaselineRules ==
    pc = "rerun" =>
        LET flat == session_state.kpis
        IN  /\ Len(flat) = Cardinality(CatalogNames)
            /\ \A name \in CatalogNames : \E i \in DOMAIN flat : flat[i].k = name
            /\ \A i \in DOMAIN flat :
                  flat[i].k \in CatalogNames /\ flat[i].v = RuleValue[flat[i].k]
            /\ Get(flat, "Complaints About the Health Plan") = 10
            /\ Get(flat, "Customer Service Rating") = 30
            /\ Get(flat, "Timeliness of Appeals Decisions") = 40
            /\ Get(flat, "Plan Makes Timely Decisions About Appeals") = 20
            /\ Get(flat, "MTM Program Completion Rate for CMR") = 20

\* The reset button has assigned a fresh baseline over an edited mapping.
C7_Witness ==
    /\ pc = "rerun"
    /\ edits > 0
    /\ Len(session_state.kpis) = 12
    /\ \E i \in DOMAIN session_state.kpis : session_state.kpis[i].v = 40

\* C8: after any slider edits a reset leaves the mapping equal to
\* baseline_kpis(), whatever the edits were; a second reset right after
\* changes nothing; and the mapping still equals the baseline when the
\* rerun pass the reset triggered has gone through the sliders.
C8_ResetRestoresBaseline ==
    /\ [](pc = "rerun" => session_state.kpis = baseline_kpis)
    /\ []((pc = "idle" /\ last = "reset") => session_state.kpis = baseline_kpis)
    /\ [][(pc = "idle" /\ last = "reset" /\ pc' = "rerun")
            => session_state' = session_state]_vars

\* A reset and its rerun pass have finished after two slider moves, one of
\* them on a slider whose browser position still differs from the baseline.
C8_Witness ==
    /\ pc = "idle"
    /\ last = "reset"
    /\ edits >= 2
    /\ session_state.kpis = baseline_kpis
    /\ \E label \in DOMAIN widgets : widgets[label].value # Get(baseline_kpis, label)

\* C9: in every reachable state of a session the mapping is valid: its keys
\* are exactly the catalog's metric names and every value is in [1.0, 5.0].
C9_ValidMapping ==
    /\ pc # "start" => HasKpis
    /\ HasKpis =>
          /\ Keys(session_state.kpis) = CatalogNames
          /\ Len(session_state.kpis) = Cardinality(CatalogNames)
          /\ \A i \in DOMAIN session_state.kpis :
                10 <= session_state.kpis[i].v /\ session_state.kpis[i].v <= 50

\* Two slider moves have been served and the mapping differs from the
\* baseline in two entries, one at 1.0 or 5.0.
C9_Witness ==
    /\ pc = "idle"
    /\ last = "edit"
    /\ edits = 2
    /\ Cardinality({i \in DOMAIN baseline_kpis :
                       session_state.kpis[i] # baseline_kpis[i]}) = 2
    /\ \E i \in DOMAIN session_state.kpis :
          /\ session_state.kpis[i] # baseline_kpis[i]
          /\ session_state.kpis[i].v \in {10, 50}

\* C10: at the end of every pass a slider edit triggered, the displayed
\* rating is calculate_star_score of the mapping as that edit left it: the
\* score, the charts and the recommendations of one pass all come from the
\* same, post-edit mapping.
C10_ScoreOfEditedMapping ==
    (pc = "idle" /\ last = "edit") =>
        /\ shown_score = calculate_star_score(session_state.kpis)
        /\ chart = DataFrame(session_state.kpis)
        /\ shown_recs = generate_recommendations(session_state.kpis)

====
